---------------------------- MODULE Spec2Model ----------------------------
(***************************************************************************)
(* Model of the binary protocol layer of the money-streaming program:      *)
(*   - program/src/instruction.rs : StreamInstruction::pack / unpack       *)
(*   - program/src/state.rs       : Pack for Stream and StreamTerms        *)
(*                                                                         *)
(* Representation of values                                                *)
(*   byte      a number in 0..255                                          *)
(*   &[u8]     a sequence of bytes                                         *)
(*   u64, f64  the 64-bit pattern of the value, written as its eight       *)
(*             base-256 digits, most significant digit first (an f64 is    *)
(*             its IEEE-754 bits: to_le_bytes / from_le_bytes of f64 are   *)
(*             those of its bits).  Equality is equality of the bits.      *)
(*   Pubkey    its 32 bytes                                                *)
(*   String    its UTF-8 bytes (a Rust String is always valid UTF-8)       *)
(*   Result    [kind |-> "ok", val |-> v] or [kind |-> "err", err |-> e];  *)
(*             a panic (abort of the call) is [kind |-> "panic"]           *)
(***************************************************************************)
EXTENDS Integers, Sequences, FiniteSets, TLC

----------------------------------------------------------------------------
(* Widths fixed by the program *)

\* width of a Pubkey and of a name field
PUBKEY_BYTES == 32

\* width of a u64 / f64 field
U64_BYTES == 8

\* StreamTerms::LEN
StreamTerms_LEN == 225

\* Stream::LEN
Stream_LEN == 258

----------------------------------------------------------------------------
(* Results *)

Ok(v) == [kind |-> "ok", val |-> v]

Err(e) == [kind |-> "err", err |-> e]

Panic == [kind |-> "panic"]

NoValue == [kind |-> "none"]

InvalidStreamInstruction == "InvalidStreamInstruction"

InvalidArgument == "InvalidArgument"

InvalidStreamData == "InvalidStreamData"

----------------------------------------------------------------------------
(* Slices and fixed-width numbers *)

Take(s, n) == SubSeq(s, 1, n)

Drop(s, n) == SubSeq(s, n + 1, Len(s))

\* split_at with the bound off by one: it refuses to hand out the whole slice
split_at_strict(s, mid) ==
    IF mid >= Len(s)
    THEN Panic
    ELSE [kind |-> "ok", head |-> Take(s, mid), rest |-> Drop(s, mid)]

\* <[T]>::split_at(mid): panics when mid > len
split_at(s, mid) ==
    IF mid > Len(s)
    THEN Panic
    ELSE [kind |-> "ok", head |-> Take(s, mid), rest |-> Drop(s, mid)]

\* to_be_bytes in place of to_le_bytes: most significant byte first
to_be_bytes(v) == [i \in 1..U64_BYTES |-> v[i]]

\* u64::to_le_bytes / f64::to_le_bytes: least significant byte first
to_le_bytes(v) == [i \in 1..U64_BYTES |-> v[U64_BYTES + 1 - i]]

\* from_be_bytes in place of from_le_bytes: most significant byte first
from_be_bytes(b) == [i \in 1..U64_BYTES |-> b[i]]

\* u64::from_le_bytes / f64::from_le_bytes
from_le_bytes(b) == [i \in 1..U64_BYTES |-> b[U64_BYTES + 1 - i]]

\* the flag byte written as 0 whatever the flag
bool_as_u8_zero(b) == IF b THEN 0 ELSE 0

\* `flag as u8`
bool_as_u8(b) == IF b THEN 1 ELSE 0

----------------------------------------------------------------------------
(* String::from_utf8_lossy: every maximal invalid byte sequence becomes    *)
(* U+FFFD (EF BF BD); valid UTF-8 is kept as it is.                         *)

REPLACEMENT == <<239, 191, 189>>

IsCont(b) == b >= 128 /\ b <= 191

\* number of bytes of the sequence a lead byte announces (0: not a lead byte)
Utf8Width(b) ==
    IF b < 128 THEN 1
    ELSE IF b >= 194 /\ b <= 223 THEN 2
    ELSE IF b >= 224 /\ b <= 239 THEN 3
    ELSE IF b >= 240 /\ b <= 244 THEN 4
    ELSE 0

\* the range allowed for the second byte after lead byte b
SecondOk(b, c) ==
    IF b = 224 THEN c >= 160 /\ c <= 191
    ELSE IF b = 237 THEN c >= 128 /\ c <= 159
    ELSE IF b = 240 THEN c >= 144 /\ c <= 191
    ELSE IF b = 244 THEN c >= 128 /\ c <= 143
    ELSE IsCont(c)

\* length of the valid prefix of the sequence starting at s[i] that a lead
\* byte of width w announces: w when the sequence is complete and valid
Utf8Good(s, i, w) ==
    IF w = 0 THEN 0
    ELSE IF w = 1 THEN 1
    ELSE IF i + 1 > Len(s) \/ ~SecondOk(s[i], s[i + 1]) THEN 1
    ELSE IF w = 2 THEN 2
    ELSE IF i + 2 > Len(s) \/ ~IsCont(s[i + 2]) THEN 2
    ELSE IF w = 3 THEN 3
    ELSE IF i + 3 > Len(s) \/ ~IsCont(s[i + 3]) THEN 3
    ELSE 4

RECURSIVE lossy_from(_, _)
lossy_from(s, i) ==
    IF i > Len(s) THEN <<>>
    ELSE LET w == Utf8Width(s[i])
             g == Utf8Good(s, i, w)
         IN  IF w > 0 /\ g = w
             THEN SubSeq(s, i, i + w - 1) \o lossy_from(s, i + w)
             ELSE REPLACEMENT \o lossy_from(s, i + (IF g = 0 THEN 1 ELSE g))

from_utf8_lossy(bytes) == lossy_from(bytes, 1)

----------------------------------------------------------------------------
(* instruction.rs: field readers *)

\* unpack_pubkey: Ok((pk, rest)) when at least 32 bytes are left
unpack_pubkey(input) ==
    IF Len(input) >= PUBKEY_BYTES
    THEN [kind |-> "ok", val |-> Take(input, PUBKEY_BYTES),
          rest |-> Drop(input, PUBKEY_BYTES)]
    ELSE Err(InvalidArgument)

\* unpack_string reporting a short name as the numbers' error
unpack_string_number_error(input) ==
    IF Len(input) >= PUBKEY_BYTES
    THEN [kind |-> "ok", val |-> from_utf8_lossy(Take(input, PUBKEY_BYTES)),
          rest |-> Drop(input, PUBKEY_BYTES)]
    ELSE Err(InvalidStreamInstruction)

\* unpack_string: Ok((lossy text of 32 bytes, rest)) when at least 32 bytes are left
unpack_string(input) ==
    IF Len(input) >= PUBKEY_BYTES
    THEN [kind |-> "ok", val |-> from_utf8_lossy(Take(input, PUBKEY_BYTES)),
          rest |-> Drop(input, PUBKEY_BYTES)]
    ELSE Err(InvalidArgument)

\* unpack_u64: input.get(..8) -> from_le_bytes, or InvalidStreamInstruction
unpack_u64(input) ==
    IF Len(input) >= U64_BYTES
    THEN Ok(from_le_bytes(Take(input, U64_BYTES)))
    ELSE Err(InvalidStreamInstruction)

\* unpack_f64: input.get(..8) -> from_le_bytes, or InvalidStreamInstruction
unpack_f64(input) ==
    IF Len(input) >= U64_BYTES
    THEN Ok(from_le_bytes(Take(input, U64_BYTES)))
    ELSE Err(InvalidStreamInstruction)

(* A sub-decoder threads the remaining bytes through its reads.  A cursor  *)
(* is [kind |-> "ok", vals |-> values read so far, rest |-> bytes left];   *)
(* a failed read (`?`) or a panic replaces the cursor and ends the decoder *)

Cursor(input) == [kind |-> "ok", vals |-> <<>>, rest |-> input]

\* let (x, result) = Self::unpack_pubkey(result)?;
read_pubkey(c) ==
    IF c.kind # "ok" THEN c
    ELSE LET r == unpack_pubkey(c.rest)
         IN  IF r.kind # "ok" THEN r
             ELSE [kind |-> "ok", vals |-> Append(c.vals, r.val), rest |-> r.rest]

\* let (x, result) = Self::unpack_string(result)?;
read_string(c) ==
    IF c.kind # "ok" THEN c
    ELSE LET r == unpack_string(c.rest)
         IN  IF r.kind # "ok" THEN r
             ELSE [kind |-> "ok", vals |-> Append(c.vals, r.val), rest |-> r.rest]

\* let (x, result) = result.split_at(8); let x = Self::unpack_f64(x)?;
read_f64(c) ==
    IF c.kind # "ok" THEN c
    ELSE LET sp == split_at(c.rest, U64_BYTES)
         IN  IF sp.kind # "ok" THEN sp
             ELSE LET r == unpack_f64(sp.head)
                  IN  IF r.kind # "ok" THEN r
                      ELSE [kind |-> "ok", vals |-> Append(c.vals, r.val),
                            rest |-> sp.rest]

\* let (x, result) = result.split_at(8); let x = Self::unpack_u64(x)?;
read_u64(c) ==
    IF c.kind # "ok" THEN c
    ELSE LET sp == split_at(c.rest, U64_BYTES)
         IN  IF sp.kind # "ok" THEN sp
             ELSE LET r == unpack_u64(sp.head)
                  IN  IF r.kind # "ok" THEN r
                      ELSE [kind |-> "ok", vals |-> Append(c.vals, r.val),
                            rest |-> sp.rest]

\* the flag read as C reads it: every byte but 0 is true
flag_of_nonzero(slice) == slice # <<0>>

\* match flag { [0] => false, [1] => true, _ => false }
flag_of(slice) ==
    IF slice = <<0>> THEN FALSE
    ELSE IF slice = <<1>> THEN TRUE
    ELSE FALSE

\* let (flag, _result) = result.split_at(1); match flag {..}
read_flag(c) ==
    IF c.kind # "ok" THEN c
    ELSE LET sp == split_at(c.rest, 1)
         IN  IF sp.kind # "ok" THEN sp
             ELSE [kind |-> "ok", vals |-> Append(c.vals, flag_of(sp.head)),
                   rest |-> sp.rest]

----------------------------------------------------------------------------
(* instruction.rs: the sub-decoders *)

unpack_create_stream(input) ==
    LET c == read_u64(read_f64(read_f64(read_u64(read_u64(read_u64(
             read_f64(read_f64(read_string(read_pubkey(Cursor(input)))))))))))
    IN  IF c.kind # "ok" THEN c
        ELSE Ok([variant |-> "CreateStream",
                 beneficiary_address |-> c.vals[1],
                 stream_name |-> c.vals[2],
                 funding_amount |-> c.vals[3],
                 rate_amount |-> c.vals[4],
                 rate_interval_in_seconds |-> c.vals[5],
                 start_utc |-> c.vals[6],
                 rate_cliff_in_seconds |-> c.vals[7],
                 cliff_vest_amount |-> c.vals[8],
                 cliff_vest_percent |-> c.vals[9],
                 auto_pause_in_seconds |-> c.vals[10]])

unpack_add_funds(input) ==
    LET c == read_flag(read_f64(Cursor(input)))
    IN  IF c.kind # "ok" THEN c
        ELSE Ok([variant |-> "AddFunds",
                 contribution_amount |-> c.vals[1],
                 resume |-> c.vals[2]])

unpack_recover_funds(input) ==
    LET c == read_f64(Cursor(input))
    IN  IF c.kind # "ok" THEN c
        ELSE Ok([variant |-> "RecoverFunds", recover_amount |-> c.vals[1]])

unpack_withdraw(input) ==
    LET c == read_f64(Cursor(input))
    IN  IF c.kind # "ok" THEN c
        ELSE Ok([variant |-> "Withdraw", withdrawal_amount |-> c.vals[1]])

unpack_propose_update(input) ==
    LET c == read_u64(read_f64(read_f64(read_u64(read_u64(read_f64(
             read_pubkey(read_pubkey(read_pubkey(read_string(read_pubkey(
             Cursor(input))))))))))))
    IN  IF c.kind # "ok" THEN c
        ELSE Ok([variant |-> "ProposeUpdate",
                 proposed_by |-> c.vals[1],
                 stream_name |-> c.vals[2],
                 treasurer_address |-> c.vals[3],
                 beneficiary_address |-> c.vals[4],
                 associated_token_address |-> c.vals[5],
                 rate_amount |-> c.vals[6],
                 rate_interval_in_seconds |-> c.vals[7],
                 rate_cliff_in_seconds |-> c.vals[8],
                 cliff_vest_amount |-> c.vals[9],
                 cliff_vest_percent |-> c.vals[10],
                 auto_pause_in_seconds |-> c.vals[11]])

unpack_answer_update(input) ==
    LET c == read_flag(Cursor(input))
    IN  IF c.kind # "ok" THEN c
        ELSE Ok([variant |-> "AnswerUpdate", approve |-> c.vals[1]])

\* a decoder that takes a payload of exactly one byte and rejects any other
unpack_create_treasury_exact(input) ==
    IF Len(input) # 1 THEN Err(InvalidStreamInstruction)
    ELSE Ok([variant |-> "CreateTreasury", nounce |-> input[1]])

\* input.split_first().ok_or(InvalidStreamInstruction)?
unpack_create_treasury(input) ==
    IF Len(input) = 0 THEN Err(InvalidStreamInstruction)
    ELSE Ok([variant |-> "CreateTreasury", nounce |-> input[1]])

unpack_transfer(input) ==
    LET c == read_f64(Cursor(input))
    IN  IF c.kind # "ok" THEN c
        ELSE Ok([variant |-> "Transfer", amount |-> c.vals[1]])

\* the match on the tag with the arms of 4 and 5 exchanged
unpack_tag_swapped(tag, result) ==
    CASE tag = 0 -> unpack_create_stream(result)
      [] tag = 1 -> unpack_add_funds(result)
      [] tag = 2 -> unpack_recover_funds(result)
      [] tag = 3 -> unpack_withdraw(result)
      [] tag = 4 -> Ok([variant |-> "ResumeStream"])
      [] tag = 5 -> Ok([variant |-> "PauseStream"])
      [] tag = 6 -> unpack_propose_update(result)
      [] tag = 7 -> unpack_answer_update(result)
      [] tag = 8 -> Ok([variant |-> "CloseStream"])
      [] tag = 9 -> unpack_create_treasury(result)
      [] tag = 10 -> unpack_transfer(result)
      [] OTHER -> Err(InvalidStreamInstruction)

\* the match on the tag
unpack_tag(tag, result) ==
    CASE tag = 0 -> unpack_create_stream(result)
      [] tag = 1 -> unpack_add_funds(result)
      [] tag = 2 -> unpack_recover_funds(result)
      [] tag = 3 -> unpack_withdraw(result)
      [] tag = 4 -> Ok([variant |-> "PauseStream"])
      [] tag = 5 -> Ok([variant |-> "ResumeStream"])
      [] tag = 6 -> unpack_propose_update(result)
      [] tag = 7 -> unpack_answer_update(result)
      [] tag = 8 -> Ok([variant |-> "CloseStream"])
      [] tag = 9 -> unpack_create_treasury(result)
      [] tag = 10 -> unpack_transfer(result)
      [] OTHER -> Err(InvalidStreamInstruction)

\* StreamInstruction::unpack
unpack(data) ==
    IF Len(data) = 0 THEN Err(InvalidStreamInstruction)
    ELSE unpack_tag(data[1], Drop(data, 1))

\* StreamInstruction::pack
pack(x) ==
    CASE x.variant = "CreateStream" ->
            <<0>> \o x.beneficiary_address
                  \o x.stream_name
                  \o to_le_bytes(x.funding_amount)
                  \o to_le_bytes(x.rate_amount)
                  \o to_le_bytes(x.rate_interval_in_seconds)
                  \o to_le_bytes(x.start_utc)
                  \o to_le_bytes(x.rate_cliff_in_seconds)
                  \o to_le_bytes(x.cliff_vest_amount)
                  \o to_le_bytes(x.cliff_vest_percent)
                  \o to_le_bytes(x.auto_pause_in_seconds)
      [] x.variant = "AddFunds" ->
            <<1>> \o to_le_bytes(x.contribution_amount)
                  \o <<bool_as_u8(x.resume)>>
      [] x.variant = "RecoverFunds" -> <<2>> \o to_le_bytes(x.recover_amount)
      [] x.variant = "Withdraw" -> <<3>> \o to_le_bytes(x.withdrawal_amount)
      [] x.variant = "PauseStream" -> <<4>>
      [] x.variant = "ResumeStream" -> <<5>>
      [] x.variant = "ProposeUpdate" ->
            <<6>> \o x.proposed_by
                  \o x.stream_name
                  \o x.treasurer_address
                  \o x.beneficiary_address
                  \o x.associated_token_address
                  \o to_le_bytes(x.rate_amount)
                  \o to_le_bytes(x.rate_interval_in_seconds)
                  \o to_le_bytes(x.rate_cliff_in_seconds)
                  \o to_le_bytes(x.cliff_vest_amount)
                  \o to_le_bytes(x.cliff_vest_percent)
                  \o to_le_bytes(x.auto_pause_in_seconds)
      [] x.variant = "AnswerUpdate" -> <<7>> \o <<bool_as_u8(x.approve)>>
      [] x.variant = "CloseStream" -> <<8>>
      [] x.variant = "CreateTreasury" -> <<9, x.nounce>>
      [] x.variant = "Transfer" -> <<10>> \o to_le_bytes(x.amount)

----------------------------------------------------------------------------
(* state.rs: fixed layouts *)

\* mut_array_refs![output, 1, 32, 32, 32, 32, 32, 32, 8, 8, 8, 8]
StreamTerms_widths == <<1, 32, 32, 32, 32, 32, 32, 8, 8, 8, 8>>

\* mut_array_refs![output, 1, 32, 32, 8, 8, 8, 8, 8, 8, 32, 32, 32, 8, 8, 8, 8, 8, 8, 1]
Stream_widths == <<1, 32, 32, 8, 8, 8, 8, 8, 8, 32, 32, 32, 8, 8, 8, 8, 8, 8, 1>>

\* offset (from 0) of the k-th sub-array the macro hands out
RECURSIVE offset_of(_, _)
offset_of(widths, k) ==
    IF k = 1 THEN 0 ELSE offset_of(widths, k - 1) + widths[k - 1]

\* the sub-arrays laid out from the end of the buffer instead of its start
field_of_tail(input, widths, k) ==
    LET shift == Len(input) - (offset_of(widths, Len(widths)) + widths[Len(widths)])
    IN  SubSeq(input, shift + offset_of(widths, k) + 1,
               shift + offset_of(widths, k) + widths[k])

\* the k-th sub-array of array_refs![input, widths..]
field_of(input, widths, k) ==
    SubSeq(input, offset_of(widths, k) + 1, offset_of(widths, k) + widths[k])

\* src inserted at offset off instead of stored over the bytes there
write_at_insert(buf, off, src) == Take(buf, off) \o src \o Drop(buf, off)

\* the buffer with src stored at offset off
write_at(buf, off, src) ==
    [i \in 1..Len(buf) |->
        IF i > off /\ i <= off + Len(src) THEN src[i - off] ELSE buf[i]]

\* the stores made only after every source was found to fit its sub-array
RECURSIVE store_fields_checked(_, _, _, _)
store_fields_checked(widths, srcs, k, buf) ==
    IF \E j \in k..Len(srcs) : Len(srcs[j]) # widths[j]
    THEN [kind |-> "panic", output |-> buf]
    ELSE IF k > Len(srcs) THEN [kind |-> "ok", output |-> buf]
    ELSE store_fields_checked(widths, srcs, k + 1,
                              write_at(buf, offset_of(widths, k), srcs[k]))

(* The stores of pack_into_slice in source order: the k-th store writes    *)
(* srcs[k] into the k-th sub-array.  copy_from_slice panics when the       *)
(* lengths differ; the stores made before it stay in the buffer.           *)
RECURSIVE store_fields(_, _, _, _)
store_fields(widths, srcs, k, buf) ==
    IF k > Len(srcs) THEN [kind |-> "ok", output |-> buf]
    ELSE IF Len(srcs[k]) # widths[k] THEN [kind |-> "panic", output |-> buf]
    ELSE store_fields(widths, srcs, k + 1,
                      write_at(buf, offset_of(widths, k), srcs[k]))

\* the record flags read as leniently as the instruction flags
strict_bool_lenient(slice) ==
    IF slice = <<0>> THEN Ok(FALSE)
    ELSE IF slice = <<1>> THEN Ok(TRUE)
    ELSE Ok(FALSE)

\* match flag { [0] => false, [1] => true, _ => return Err(InvalidStreamData) }
strict_bool(slice) ==
    IF slice = <<0>> THEN Ok(FALSE)
    ELSE IF slice = <<1>> THEN Ok(TRUE)
    ELSE Err(InvalidStreamData)

----------------------------------------------------------------------------
(* state.rs: StreamTerms *)

\* <StreamTerms as Pack>::pack_into_slice
StreamTerms_pack_into_slice(self, output) ==
    IF Len(output) < StreamTerms_LEN THEN [kind |-> "panic", output |-> output]
    ELSE store_fields(StreamTerms_widths,
            << <<bool_as_u8(self.initialized)>>,
               self.proposed_by,
               self.stream_name,
               self.treasurer_address,
               self.beneficiary_address,
               self.stream_associated_token,
               self.treasury_address,
               to_le_bytes(self.rate_amount),
               to_le_bytes(self.rate_interval_in_seconds),
               to_le_bytes(self.start_utc),
               to_le_bytes(self.rate_cliff_in_seconds) >>,
            1, output)

\* <StreamTerms as Pack>::unpack_from_slice
StreamTerms_unpack_from_slice(input) ==
    IF Len(input) < StreamTerms_LEN THEN Panic
    ELSE LET f(k) == field_of(input, StreamTerms_widths, k)
             initialized == strict_bool(f(1))
         IN  IF initialized.kind # "ok" THEN initialized
             ELSE Ok([type |-> "StreamTerms",
                      initialized |-> initialized.val,
                      proposed_by |-> f(2),
                      stream_name |-> from_utf8_lossy(f(3)),
                      treasurer_address |-> f(4),
                      beneficiary_address |-> f(5),
                      stream_associated_token |-> f(6),
                      treasury_address |-> f(7),
                      rate_amount |-> from_le_bytes(f(8)),
                      rate_interval_in_seconds |-> from_le_bytes(f(9)),
                      start_utc |-> from_le_bytes(f(10)),
                      rate_cliff_in_seconds |-> from_le_bytes(f(11))])

----------------------------------------------------------------------------
(* state.rs: Stream *)

\* <Stream as Pack>::pack_into_slice
Stream_pack_into_slice(self, output) ==
    IF Len(output) < Stream_LEN THEN [kind |-> "panic", output |-> output]
    ELSE store_fields(Stream_widths,
            << <<bool_as_u8(self.initialized)>>,
               self.stream_name,
               self.treasurer_address,
               to_le_bytes(self.rate_amount),
               to_le_bytes(self.rate_interval_in_seconds),
               to_le_bytes(self.start_utc),
               to_le_bytes(self.rate_cliff_in_seconds),
               to_le_bytes(self.cliff_vest_amount),
               to_le_bytes(self.cliff_vest_percent),
               self.beneficiary_address,
               self.stream_associated_token,
               self.treasury_address,
               to_le_bytes(self.treasury_estimated_depletion_utc),
               to_le_bytes(self.total_deposits),
               to_le_bytes(self.total_withdrawals),
               to_le_bytes(self.escrow_vested_amount_snap),
               to_le_bytes(self.escrow_vested_amount_snap_block_height),
               to_le_bytes(self.auto_pause_in_seconds),
               <<bool_as_u8(self.is_streaming)>> >>,
            1, output)

\* <Stream as Pack>::unpack_from_slice
Stream_unpack_from_slice(input) ==
    IF Len(input) < Stream_LEN THEN Panic
    ELSE LET f(k) == field_of(input, Stream_widths, k)
             initialized == strict_bool(f(1))
             is_streaming == strict_bool(f(19))
         IN  IF initialized.kind # "ok" THEN initialized
             ELSE IF is_streaming.kind # "ok" THEN is_streaming
             ELSE Ok([type |-> "Stream",
                      initialized |-> initialized.val,
                      stream_name |-> from_utf8_lossy(f(2)),
                      treasurer_address |-> f(3),
                      rate_amount |-> from_le_bytes(f(4)),
                      rate_interval_in_seconds |-> from_le_bytes(f(5)),
                      start_utc |-> from_le_bytes(f(6)),
                      rate_cliff_in_seconds |-> from_le_bytes(f(7)),
                      cliff_vest_amount |-> from_le_bytes(f(8)),
                      cliff_vest_percent |-> from_le_bytes(f(9)),
                      beneficiary_address |-> f(10),
                      stream_associated_token |-> f(11),
                      treasury_address |-> f(12),
                      treasury_estimated_depletion_utc |-> from_le_bytes(f(13)),
                      total_deposits |-> from_le_bytes(f(14)),
                      total_withdrawals |-> from_le_bytes(f(15)),
                      escrow_vested_amount_snap |-> from_le_bytes(f(16)),
                      escrow_vested_amount_snap_block_height |-> from_le_bytes(f(17)),
                      auto_pause_in_seconds |-> from_le_bytes(f(18)),
                      is_streaming |-> is_streaming.val])

----------------------------------------------------------------------------
(* lib.rs and instruction.rs: the instruction builders *)

IncorrectProgramId == "IncorrectProgramId"

\* declare_id!("2HEkjrj21DX2ecNQjAEUPKwr2pEnwSBjgi9GUHWtKnhH"): id()
id ==
    <<19, 4, 136, 29, 189, 227, 127, 184, 213, 39, 127, 110, 143, 70, 217, 218,
      110, 188, 19, 16, 31, 63, 187, 115, 194, 246, 212, 198, 189, 254, 151, 20>>

\* spl_token::id(): TokenkegQfeZyiNwAJbNbGKPFXCWuBvf9Ss623VQ5DA
spl_token_id ==
    <<6, 221, 246, 225, 215, 101, 161, 147, 217, 203, 225, 70, 206, 235, 121, 172,
      28, 180, 133, 237, 95, 91, 55, 145, 58, 140, 245, 133, 126, 255, 0, 169>>

\* solana_program::system_program::id(): 11111111111111111111111111111111
system_program_id == [j \in 1..PUBKEY_BYTES |-> 0]

\* solana_program::sysvar::rent::id(): SysvarRent111111111111111111111111111111111
sysvar_rent_id ==
    <<6, 167, 213, 23, 25, 44, 92, 81, 33, 140, 201, 76, 61, 74, 241, 127,
      88, 218, 238, 8, 155, 161, 253, 68, 227, 219, 217, 138, 0, 0, 0, 0>>

\* check_program_account
check_program_account(pid) ==
    IF pid # id THEN Err(IncorrectProgramId) ELSE Ok(<<>>)

\* AccountMeta::new(pubkey, is_signer)
AccountMeta_new(pubkey, is_signer) ==
    [pubkey |-> pubkey, is_signer |-> is_signer, is_writable |-> TRUE]

\* AccountMeta::new_readonly(pubkey, is_signer)
AccountMeta_new_readonly(pubkey, is_signer) ==
    [pubkey |-> pubkey, is_signer |-> is_signer, is_writable |-> FALSE]

(* Every builder begins with the statement `check_program_account(program_id);` *)
(* whose Result is dropped (no `?`, no match): `checked` below is that value,   *)
(* and nothing in the builder reads it.                                         *)

\* create_stream; a.k are the address arguments, x the CreateStream value
create_stream(pid, a, x) ==
    LET checked == check_program_account(pid)
        data == pack(x)
        accounts ==
            << AccountMeta_new_readonly(a.treasurer_address, TRUE),
               AccountMeta_new(a.treasurer_token_address, FALSE),
               AccountMeta_new(a.beneficiary_token_address, FALSE),
               AccountMeta_new_readonly(a.treasury_address, FALSE),
               AccountMeta_new(a.treasury_token_address, FALSE),
               AccountMeta_new(a.stream_address, FALSE),
               AccountMeta_new(a.mint_address, FALSE),
               AccountMeta_new(a.msp_ops_address, FALSE),
               AccountMeta_new_readonly(pid, FALSE),
               AccountMeta_new_readonly(spl_token_id, FALSE),
               AccountMeta_new_readonly(system_program_id, FALSE),
               AccountMeta_new_readonly(sysvar_rent_id, FALSE) >>
    IN  Ok([program_id |-> pid, accounts |-> accounts, data |-> data])

\* add_funds
add_funds(pid, a, x) ==
    LET checked == check_program_account(pid)
        data == pack(x)
        accounts ==
            << AccountMeta_new(a.contribution_token_address, TRUE),
               AccountMeta_new(a.stream_address, FALSE),
               AccountMeta_new_readonly(a.treasury_address, FALSE) >>
    IN  Ok([program_id |-> pid, accounts |-> accounts, data |-> data])

\* withdraw
withdraw(pid, a, x) ==
    LET checked == check_program_account(pid)
        data == pack(x)
        accounts ==
            << AccountMeta_new_readonly(a.beneficiary_account_address, FALSE),
               AccountMeta_new(a.stream_account_address, FALSE),
               AccountMeta_new_readonly(a.treasury_account_address, FALSE) >>
    IN  Ok([program_id |-> pid, accounts |-> accounts, data |-> data])

\* close_stream
close_stream(pid, a, x) ==
    LET checked == check_program_account(pid)
        data == pack(x)
        accounts ==
            << AccountMeta_new(a.initializer_account_key, TRUE),
               AccountMeta_new(a.stream_account_key, FALSE),
               AccountMeta_new_readonly(a.counterparty_account_key, FALSE),
               AccountMeta_new_readonly(a.treasury_account_key, FALSE) >>
    IN  Ok([program_id |-> pid, accounts |-> accounts, data |-> data])

\* transfer
transfer(pid, a, x) ==
    LET checked == check_program_account(pid)
        data == pack(x)
        accounts ==
            << AccountMeta_new_readonly(a.source_address, TRUE),
               AccountMeta_new(a.source_token_address, FALSE),
               AccountMeta_new(a.destination_token_address, FALSE),
               AccountMeta_new(a.mint_address, FALSE),
               AccountMeta_new_readonly(spl_token_id, FALSE) >>
    IN  Ok([program_id |-> pid, accounts |-> accounts, data |-> data])

\* the variant each builder encodes
Builders == {"CreateStream", "AddFunds", "Withdraw", "CloseStream", "Transfer"}

\* the call of the builder of variant x.variant
build(pid, a, x) ==
    CASE x.variant = "CreateStream" -> create_stream(pid, a, x)
      [] x.variant = "AddFunds" -> add_funds(pid, a, x)
      [] x.variant = "Withdraw" -> withdraw(pid, a, x)
      [] x.variant = "CloseStream" -> close_stream(pid, a, x)
      [] x.variant = "Transfer" -> transfer(pid, a, x)

----------------------------------------------------------------------------
(* Bounds of the model and the inputs drawn within them *)

\* seeds of the sample numbers and keys are 0..MaxSeed
MaxSeed == 2

\* names are 0, 1 and 31..MaxNameLen bytes long
MaxNameLen == 34

\* byte patterns 0..MaxFill fill caller-supplied buffers
MaxFill == 2

\* caller-supplied instruction payloads are 0..MaxPayloadLen bytes long
MaxPayloadLen == 210

\* account buffers are up to MaxExtra bytes longer than LEN (and one shorter)
MaxExtra == 1

Byte == 0..255

\* flag values tried together with every value of the other flag
EdgeBytes == {0, 1, 2, 255}

\* the i-th byte of fill pattern f: zeros, letters, then mixed bytes
Fill(f, i) ==
    IF f = 0 THEN 0
    ELSE IF f = 1 THEN 97 + (i % 26)
    ELSE (i * (25 + 6 * f) + 7 * f) % 256

FillSeq(f, n) == [i \in 1..n |-> Fill(f, i)]

\* a 64-bit pattern per seed and field (seed 0: the number 0)
SampleU64(seed, i) ==
    [j \in 1..U64_BYTES |-> IF seed = 0 THEN 0 ELSE (seed * 37 + i * 11 + j * 5) % 256]

\* a key per seed and field (seed 0: Pubkey::default(), all zero)
SamplePubkey(seed, i) ==
    [j \in 1..PUBKEY_BYTES |-> IF seed = 0 THEN 0 ELSE (seed * 53 + i * 17 + j * 3) % 256]

NameLens == {0, 1} \cup ((PUBKEY_BYTES - 1)..MaxNameLen)

NameStyles == {"ascii", "accented", "padded"}

\* a valid UTF-8 text of len bytes: letters; two-byte characters (C3 A9)
\* after an optional leading letter; or "ab" followed by NUL padding
SampleName(style, len) ==
    [j \in 1..len |->
        IF style = "ascii" THEN 97 + (j % 26)
        ELSE IF style = "accented"
             THEN LET q == j - (len % 2)
                  IN  IF q = 0 THEN 120 ELSE IF q % 2 = 1 THEN 195 ELSE 169
        ELSE IF j <= 2 THEN 96 + j ELSE 0]

Names == {SampleName(st, n) : st \in NameStyles, n \in NameLens}

Variants == {"CreateStream", "AddFunds", "RecoverFunds", "Withdraw", "PauseStream",
             "ResumeStream", "ProposeUpdate", "AnswerUpdate", "CloseStream",
             "CreateTreasury", "Transfer"}

\* a value of the variant built from a seed, a name and a flag
SampleInstruction(v, seed, name, flag) ==
    CASE v = "CreateStream" ->
            [variant |-> v,
             beneficiary_address |-> SamplePubkey(seed, 1),
             stream_name |-> name,
             funding_amount |-> SampleU64(seed, 1),
             rate_amount |-> SampleU64(seed, 2),
             rate_interval_in_seconds |-> SampleU64(seed, 3),
             start_utc |-> SampleU64(seed, 4),
             rate_cliff_in_seconds |-> SampleU64(seed, 5),
             cliff_vest_amount |-> SampleU64(seed, 6),
             cliff_vest_percent |-> SampleU64(seed, 7),
             auto_pause_in_seconds |-> SampleU64(seed, 8)]
      [] v = "AddFunds" ->
            [variant |-> v, contribution_amount |-> SampleU64(seed, 1), resume |-> flag]
      [] v = "RecoverFunds" -> [variant |-> v, recover_amount |-> SampleU64(seed, 1)]
      [] v = "Withdraw" -> [variant |-> v, withdrawal_amount |-> SampleU64(seed, 1)]
      [] v = "ProposeUpdate" ->
            [variant |-> v,
             proposed_by |-> SamplePubkey(seed, 1),
             stream_name |-> name,
             treasurer_address |-> SamplePubkey(seed, 2),
             beneficiary_address |-> SamplePubkey(seed, 3),
             associated_token_address |-> SamplePubkey(seed, 4),
             rate_amount |-> SampleU64(seed, 1),
             rate_interval_in_seconds |-> SampleU64(seed, 2),
             rate_cliff_in_seconds |-> SampleU64(seed, 3),
             cliff_vest_amount |-> SampleU64(seed, 4),
             cliff_vest_percent |-> SampleU64(seed, 5),
             auto_pause_in_seconds |-> SampleU64(seed, 6)]
      [] v = "AnswerUpdate" -> [variant |-> v, approve |-> flag]
      [] v = "CreateTreasury" -> [variant |-> v, nounce |-> (seed * 85) % 256]
      [] v = "Transfer" -> [variant |-> v, amount |-> SampleU64(seed, 1)]
      [] OTHER -> [variant |-> v]

SampleStreamTerms(seed, name, init) ==
    [type |-> "StreamTerms",
     initialized |-> init,
     proposed_by |-> SamplePubkey(seed, 1),
     stream_name |-> name,
     treasurer_address |-> SamplePubkey(seed, 2),
     beneficiary_address |-> SamplePubkey(seed, 3),
     stream_associated_token |-> SamplePubkey(seed, 4),
     treasury_address |-> SamplePubkey(seed, 5),
     rate_amount |-> SampleU64(seed, 1),
     rate_interval_in_seconds |-> SampleU64(seed, 2),
     start_utc |-> SampleU64(seed, 3),
     rate_cliff_in_seconds |-> SampleU64(seed, 4)]

SampleStream(seed, name, init, streaming) ==
    [type |-> "Stream",
     initialized |-> init,
     stream_name |-> name,
     treasurer_address |-> SamplePubkey(seed, 1),
     rate_amount |-> SampleU64(seed, 1),
     rate_interval_in_seconds |-> SampleU64(seed, 2),
     start_utc |-> SampleU64(seed, 3),
     rate_cliff_in_seconds |-> SampleU64(seed, 4),
     cliff_vest_amount |-> SampleU64(seed, 5),
     cliff_vest_percent |-> SampleU64(seed, 6),
     beneficiary_address |-> SamplePubkey(seed, 2),
     stream_associated_token |-> SamplePubkey(seed, 3),
     treasury_address |-> SamplePubkey(seed, 4),
     treasury_estimated_depletion_utc |-> SampleU64(seed, 7),
     total_deposits |-> SampleU64(seed, 8),
     total_withdrawals |-> SampleU64(seed, 9),
     escrow_vested_amount_snap |-> SampleU64(seed, 10),
     escrow_vested_amount_snap_block_height |-> SampleU64(seed, 11),
     auto_pause_in_seconds |-> SampleU64(seed, 12),
     is_streaming |-> streaming]

\* the address arguments of the builders
SampleAddresses(seed) ==
    [treasurer_address |-> SamplePubkey(seed, 11),
     treasurer_token_address |-> SamplePubkey(seed, 12),
     beneficiary_token_address |-> SamplePubkey(seed, 13),
     treasury_address |-> SamplePubkey(seed, 14),
     treasury_token_address |-> SamplePubkey(seed, 15),
     stream_address |-> SamplePubkey(seed, 16),
     mint_address |-> SamplePubkey(seed, 17),
     msp_ops_address |-> SamplePubkey(seed, 18),
     contribution_token_address |-> SamplePubkey(seed, 19),
     beneficiary_account_address |-> SamplePubkey(seed, 20),
     stream_account_address |-> SamplePubkey(seed, 21),
     treasury_account_address |-> SamplePubkey(seed, 22),
     initializer_account_key |-> SamplePubkey(seed, 23),
     stream_account_key |-> SamplePubkey(seed, 24),
     counterparty_account_key |-> SamplePubkey(seed, 25),
     treasury_account_key |-> SamplePubkey(seed, 26),
     source_address |-> SamplePubkey(seed, 27),
     source_token_address |-> SamplePubkey(seed, 28),
     destination_token_address |-> SamplePubkey(seed, 29)]

\* program ids a caller may pass: this program's, the token program's, others
ProgramIds == {id, spl_token_id} \cup {SamplePubkey(seed, 30) : seed \in 0..MaxSeed}

\* impl Default for StreamTerms
StreamTerms_default ==
    [type |-> "StreamTerms",
     initialized |-> FALSE,
     proposed_by |-> SamplePubkey(0, 1),
     stream_name |-> <<>>,
     treasurer_address |-> SamplePubkey(0, 1),
     beneficiary_address |-> SamplePubkey(0, 1),
     stream_associated_token |-> SamplePubkey(0, 1),
     treasury_address |-> SamplePubkey(0, 1),
     rate_amount |-> SampleU64(0, 1),
     rate_interval_in_seconds |-> SampleU64(0, 1),
     start_utc |-> SampleU64(0, 1),
     rate_cliff_in_seconds |-> SampleU64(0, 1)]

\* impl Default for Stream
Stream_default ==
    [type |-> "Stream",
     initialized |-> FALSE,
     stream_name |-> <<>>,
     treasurer_address |-> SamplePubkey(0, 1),
     rate_amount |-> SampleU64(0, 1),
     rate_interval_in_seconds |-> SampleU64(0, 1),
     start_utc |-> SampleU64(0, 1),
     rate_cliff_in_seconds |-> SampleU64(0, 1),
     cliff_vest_amount |-> SampleU64(0, 1),
     cliff_vest_percent |-> SampleU64(0, 1),
     beneficiary_address |-> SamplePubkey(0, 1),
     stream_associated_token |-> SamplePubkey(0, 1),
     treasury_address |-> SamplePubkey(0, 1),
     treasury_estimated_depletion_utc |-> SampleU64(0, 1),
     total_deposits |-> SampleU64(0, 1),
     total_withdrawals |-> SampleU64(0, 1),
     escrow_vested_amount_snap |-> SampleU64(0, 1),
     escrow_vested_amount_snap_block_height |-> SampleU64(0, 1),
     auto_pause_in_seconds |-> SampleU64(0, 1),
     is_streaming |-> TRUE]

----------------------------------------------------------------------------
(* The program as its caller sees it: one call at a time, on values and    *)
(* buffers the caller supplies for that invocation.                        *)

VARIABLES
    pc,               \* what the invocation has done so far
    instr,            \* the StreamInstruction value given to pack
    instruction_data, \* the instruction bytes (packed, or supplied by the caller)
    decoded,          \* what StreamInstruction::unpack returned
    layout,           \* the record type of the account: "Stream" or "StreamTerms"
    record,           \* the record given to pack_into_slice
    account0,         \* the account buffer as the caller supplied it
    account,          \* the account buffer now
    packed,           \* how pack_into_slice ended: "ok" or "panic"
    unpacked,         \* what unpack_from_slice returned
    program_id,       \* the program id given to an instruction builder
    built             \* what the instruction builder returned

vars == <<pc, instr, instruction_data, decoded,
          layout, record, account0, account, packed, unpacked,
          program_id, built>>

instr_vars == <<instr, instruction_data, decoded>>

state_vars == <<layout, record, account0, account, packed, unpacked>>

build_vars == <<program_id, built>>

Init ==
    /\ pc = "idle"
    /\ instr = NoValue
    /\ instruction_data = <<>>
    /\ decoded = NoValue
    /\ layout = "none"
    /\ record = NoValue
    /\ account0 = <<>>
    /\ account = <<>>
    /\ packed = "none"
    /\ unpacked = NoValue
    /\ program_id = <<>>
    /\ built = NoValue

LEN(l) == IF l = "Stream" THEN Stream_LEN ELSE StreamTerms_LEN

BufferLens(l) == (LEN(l) - 1)..(LEN(l) + MaxExtra)

\* a client builds an instruction value and encodes it
Pack ==
    /\ pc = "idle"
    /\ \E v \in Variants, seed \in 0..MaxSeed, name \in Names, flag \in BOOLEAN :
          LET x == SampleInstruction(v, seed, name, flag)
          IN  /\ instr' = x
              /\ instruction_data' = pack(x)
    /\ pc' = "packed"
    /\ UNCHANGED <<decoded, state_vars, build_vars>>

\* the runtime hands over instruction bytes of any tag, length and content
Receive ==
    /\ pc = "idle"
    /\ \/ instruction_data' = <<>>
       \/ \E tag \in Byte, n \in 0..MaxPayloadLen, f \in 0..MaxFill :
             /\ tag <= 11 \/ n <= MaxExtra
             /\ instruction_data' = <<tag>> \o FillSeq(f, n)
    /\ pc' = "received"
    /\ UNCHANGED <<instr, decoded, state_vars, build_vars>>

\* instruction bytes of tag 1 (amount, flag) or 7 (flag) with any flag byte
ReceiveFlag ==
    /\ pc = "idle"
    /\ \E tag \in {1, 7}, f \in 0..MaxFill, b \in Byte, extra \in 0..MaxExtra :
          instruction_data' =
              <<tag>> \o (IF tag = 1 THEN FillSeq(f, U64_BYTES) ELSE <<>>)
                      \o <<b>> \o FillSeq(f, extra)
    /\ pc' = "received"
    /\ UNCHANGED <<instr, decoded, state_vars, build_vars>>

\* StreamInstruction::unpack(instruction_data)
Unpack ==
    /\ pc \in {"packed", "received"}
    /\ decoded' = unpack(instruction_data)
    /\ pc' = "unpacked"
    /\ UNCHANGED <<instr, instruction_data, state_vars, build_vars>>

\* Stream::pack_into_slice(&s, &mut account) on a buffer of n bytes
StreamPack ==
    /\ pc = "idle"
    /\ \E seed \in 0..MaxSeed, name \in Names, init \in BOOLEAN, streaming \in BOOLEAN,
          n \in BufferLens("Stream"), f \in 0..MaxFill :
          LET s == SampleStream(seed, name, init, streaming)
              r == Stream_pack_into_slice(s, FillSeq(f, n))
          IN  /\ record' = s
              /\ account0' = FillSeq(f, n)
              /\ account' = r.output
              /\ packed' = r.kind
    /\ layout' = "Stream"
    /\ pc' = "stored"
    /\ UNCHANGED <<instr_vars, unpacked, build_vars>>

\* StreamTerms::pack_into_slice(&s, &mut account) on a buffer of n bytes
StreamTermsPack ==
    /\ pc = "idle"
    /\ \E seed \in 0..MaxSeed, name \in Names, init \in BOOLEAN,
          n \in BufferLens("StreamTerms"), f \in 0..MaxFill :
          LET s == SampleStreamTerms(seed, name, init)
              r == StreamTerms_pack_into_slice(s, FillSeq(f, n))
          IN  /\ record' = s
              /\ account0' = FillSeq(f, n)
              /\ account' = r.output
              /\ packed' = r.kind
    /\ layout' = "StreamTerms"
    /\ pc' = "stored"
    /\ UNCHANGED <<instr_vars, unpacked, build_vars>>

\* an account buffer as the ledger holds it: n bytes of a pattern, with
\* any byte at offset 0 and (Stream) any byte at offset LEN - 1
Load ==
    /\ pc = "idle"
    /\ \E l \in {"Stream", "StreamTerms"}, f \in 0..MaxFill, b0 \in Byte, b1 \in Byte :
          \E n \in BufferLens(l) :
             /\ \/ b0 \in EdgeBytes /\ b1 \in EdgeBytes
                \/ n = LEN(l) /\ (b0 \in EdgeBytes \/ b1 \in EdgeBytes)
             /\ LET buf == [i \in 1..n |->
                               IF i = 1 THEN b0
                               ELSE IF l = "Stream" /\ i = Stream_LEN THEN b1
                               ELSE Fill(f, i)]
                IN  /\ account0' = buf
                    /\ account' = buf
             /\ layout' = l
    /\ pc' = "loaded"
    /\ UNCHANGED <<instr_vars, record, packed, unpacked, build_vars>>

\* Stream::unpack_from_slice(&account)
StreamUnpack ==
    /\ pc = "loaded" \/ (pc = "stored" /\ packed = "ok")
    /\ layout = "Stream"
    /\ unpacked' = Stream_unpack_from_slice(account)
    /\ pc' = "restored"
    /\ UNCHANGED <<instr_vars, layout, record, account0, account, packed, build_vars>>

\* StreamTerms::unpack_from_slice(&account)
StreamTermsUnpack ==
    /\ pc = "loaded" \/ (pc = "stored" /\ packed = "ok")
    /\ layout = "StreamTerms"
    /\ unpacked' = StreamTerms_unpack_from_slice(account)
    /\ pc' = "restored"
    /\ UNCHANGED <<instr_vars, layout, record, account0, account, packed, build_vars>>

\* pack_into_slice of the record just unpacked, into a buffer of the same length
Repack ==
    /\ pc = "restored"
    /\ record = NoValue
    /\ unpacked.kind = "ok"
    /\ \E f \in 0..MaxFill :
          LET r == IF layout = "Stream"
                   THEN Stream_pack_into_slice(unpacked.val, FillSeq(f, Len(account0)))
                   ELSE StreamTerms_pack_into_slice(unpacked.val, FillSeq(f, Len(account0)))
          IN  /\ account' = r.output
              /\ packed' = r.kind
    /\ record' = unpacked.val
    /\ pc' = "repacked"
    /\ UNCHANGED <<instr_vars, layout, account0, unpacked, build_vars>>

\* a client calls an instruction builder with a program id of its choice
Build ==
    /\ pc = "idle"
    /\ \E v \in Builders, pid \in ProgramIds, seed \in 0..MaxSeed,
          name \in Names, flag \in BOOLEAN :
          LET x == SampleInstruction(v, seed, name, flag)
          IN  /\ instr' = x
              /\ program_id' = pid
              /\ built' = build(pid, SampleAddresses(seed), x)
    /\ pc' = "built"
    /\ UNCHANGED <<instruction_data, decoded, state_vars>>

\* the invocation ends; nothing is retained for the next one
Return ==
    /\ pc \in {"unpacked", "restored", "repacked", "built"}
       \/ (pc = "stored" /\ packed = "panic")
    /\ pc' = "idle"
    /\ instr' = NoValue
    /\ instruction_data' = <<>>
    /\ decoded' = NoValue
    /\ layout' = "none"
    /\ record' = NoValue
    /\ account0' = <<>>
    /\ account' = <<>>
    /\ packed' = "none"
    /\ unpacked' = NoValue
    /\ program_id' = <<>>
    /\ built' = NoValue

Next ==
    \/ Receive
    \/ ReceiveFlag
    \/ Pack
    \/ Unpack
    \/ StreamPack
    \/ StreamTermsPack
    \/ Load
    \/ StreamUnpack
    \/ StreamTermsUnpack
    \/ Repack
    \/ Build
    \/ Return

Spec == Init /\ [][Next]_vars

----------------------------------------------------------------------------
(* What the claims speak of *)

\* the opcode of the instruction bytes (256: there is none)
Tag == IF Len(instruction_data) = 0 THEN 256 ELSE instruction_data[1]

\* the number of bytes after the opcode
PayloadBytes == Len(instruction_data) - 1

\* the variant the format assigns to a tag
VariantOfTag(tag) ==
    CASE tag = 0 -> "CreateStream"
      [] tag = 1 -> "AddFunds"
      [] tag = 2 -> "RecoverFunds"
      [] tag = 3 -> "Withdraw"
      [] tag = 4 -> "PauseStream"
      [] tag = 5 -> "ResumeStream"
      [] tag = 6 -> "ProposeUpdate"
      [] tag = 7 -> "AnswerUpdate"
      [] tag = 8 -> "CloseStream"
      [] tag = 9 -> "CreateTreasury"
      [] tag = 10 -> "Transfer"
      [] OTHER -> "none"

\* the payload fields of a variant: ids and names (32 bytes), numbers (8), flags and nonce (1)
IdFields(tag) == IF tag = 0 THEN 2 ELSE IF tag = 6 THEN 5 ELSE 0

NumberFields(tag) ==
    IF tag = 0 THEN 8 ELSE IF tag = 6 THEN 6 ELSE IF tag \in {1, 2, 3, 10} THEN 1 ELSE 0

ByteFields(tag) == IF tag \in {1, 7, 9} THEN 1 ELSE 0

\* the bytes a well-formed payload of the tag holds
PayloadLen(tag) ==
    IdFields(tag) * PUBKEY_BYTES + NumberFields(tag) * U64_BYTES + ByteFields(tag)

\* the decode reaches a number field and fewer than 8 bytes are left for it
ShortNumber ==
    /\ NumberFields(Tag) > 0
    /\ PayloadBytes >= IdFields(Tag) * PUBKEY_BYTES
    /\ PayloadBytes < IdFields(Tag) * PUBKEY_BYTES + NumberFields(Tag) * U64_BYTES

\* the decode reaches an id or name field and fewer than 32 bytes are left for it
ShortId ==
    /\ IdFields(Tag) > 0
    /\ PayloadBytes < IdFields(Tag) * PUBKEY_BYTES

\* the account buffer the call was given has exactly LEN bytes
ExactBuffer == Len(account0) = LEN(layout)

\* the record's name fills its 32-byte field exactly
SizedName == Len(record.stream_name) = PUBKEY_BYTES

StrictFlag(b) == b = 0 \/ b = 1

----------------------------------------------------------------------------
(* C1: for every instruction value x, unpack(pack(x)) succeeds and returns *)
(* x field by field.  The code breaks it: pack writes stream_name at its   *)
(* own length, unpack reads a 32-byte name.                                *)
C1_RoundTrip ==
    (pc = "unpacked" /\ instr # NoValue) => decoded = Ok(instr)

(* C2: for every Stream / StreamTerms value whose name fills its 32-byte   *)
(* field, packing into a buffer of exactly LEN bytes completes, and        *)
(* unpacking that buffer succeeds and returns the record field by field.   *)
C2_StateRoundTrip ==
    /\ (pc = "stored" /\ ExactBuffer /\ SizedName) => packed = "ok"
    /\ (pc = "restored" /\ record # NoValue /\ ExactBuffer) => unpacked = Ok(record)

C2_Witness ==
    /\ pc = "restored"
    /\ layout = "Stream"
    /\ ExactBuffer
    /\ record # NoValue
    /\ record.initialized
    /\ ~record.is_streaming
    /\ record.stream_name[1] = 195
    /\ record.stream_name # record.treasurer_address
    /\ unpacked = Ok(record)

(* C3: unpack returns InvalidStreamInstruction for empty input and for a   *)
(* first byte outside 0..10; for a first byte in 0..10 followed by a       *)
(* well-formed payload it returns the variant assigned to that tag.        *)
C3_TagDispatch ==
    pc = "unpacked" =>
        /\ Tag > 10 => decoded = Err(InvalidStreamInstruction)
        /\ (Tag <= 10 /\ PayloadBytes >= PayloadLen(Tag)) =>
              /\ decoded.kind = "ok"
              /\ decoded.val.variant = VariantOfTag(Tag)

C3_Witness ==
    /\ pc = "unpacked"
    /\ instr = NoValue
    /\ Tag = 6
    /\ PayloadBytes = PayloadLen(6)
    /\ decoded.kind = "ok"
    /\ decoded.val.variant = "ProposeUpdate"

(* C4: when fewer than 8 bytes are left for an 8-byte number field, unpack *)
(* returns InvalidStreamInstruction.  The code aborts instead: split_at(8) *)
(* panics before unpack_u64 / unpack_f64 can report the short slice.       *)
C4_ShortNumberIsTypedError ==
    (pc = "unpacked" /\ ShortNumber) => decoded = Err(InvalidStreamInstruction)

(* C5: for CreateStream and ProposeUpdate, when fewer than 32 bytes are    *)
(* left for an id field or the name field, unpack returns InvalidArgument. *)
C5_ShortIdIsInvalidArgument ==
    (pc = "unpacked" /\ ShortId) => decoded = Err(InvalidArgument)

C5_Witness ==
    /\ pc = "unpacked"
    /\ Tag = 6
    /\ PayloadBytes = 5 * PUBKEY_BYTES - 1
    /\ decoded = Err(InvalidArgument)

C7_UnpackTotal ==
    pc = "unpacked" =>
        \/ decoded.kind = "ok"
        \/ decoded \in {Err(InvalidStreamInstruction), Err(InvalidArgument)}

(* C8: unpacking a Stream buffer of LEN bytes whose byte 0 or byte 257 is  *)
(* neither 0 nor 1, or a StreamTerms buffer of LEN bytes whose byte 0 is   *)
(* neither 0 nor 1, returns InvalidStreamData whatever the other bytes are *)
C8_StrictFlags ==
    (/\ pc = "restored"
     /\ ExactBuffer
     /\ \/ ~StrictFlag(account[1])
        \/ layout = "Stream" /\ ~StrictFlag(account[Stream_LEN]))
    => unpacked = Err(InvalidStreamData)

C8_Witness ==
    /\ pc = "restored"
    /\ layout = "Stream"
    /\ ExactBuffer
    /\ account[1] = 1
    /\ account[Stream_LEN] = 2
    /\ account[2] # 0
    /\ unpacked = Err(InvalidStreamData)

(* C9: the flag byte of AddFunds (resume) and of AnswerUpdate (approve)    *)
(* decodes to false for 0, to true for 1, and to false, without an error,  *)
(* for every other value 2..255.                                           *)
C9_LenientFlags ==
    pc = "unpacked" =>
        /\ (Tag = 1 /\ PayloadBytes >= PayloadLen(1)) =>
              /\ decoded.kind = "ok"
              /\ decoded.val.resume = (instruction_data[2 + U64_BYTES] = 1)
        /\ (Tag = 7 /\ PayloadBytes >= PayloadLen(7)) =>
              /\ decoded.kind = "ok"
              /\ decoded.val.approve = (instruction_data[2] = 1)

C9_Witness ==
    /\ pc = "unpacked"
    /\ Tag = 1
    /\ PayloadBytes >= PayloadLen(1)
    /\ instruction_data[2 + U64_BYTES] = 255
    /\ decoded.kind = "ok"
    /\ decoded.val.resume = FALSE

(* C10 as stated: packing any Stream / StreamTerms value produces exactly  *)
(* LEN bytes, whatever the length of stream_name.                          *)
C10_AlwaysLenBytes ==
    (pc = "stored" /\ ExactBuffer) => (packed = "ok" /\ Len(account) = LEN(layout))

(* C10 amended: packing any Stream / StreamTerms value whose stream_name   *)
(* is exactly 32 bytes long produces exactly LEN bytes (258 resp. 225),    *)
(* regardless of the other field contents.                                 *)
C10_SizedNameLenBytes ==
    (pc = "stored" /\ ExactBuffer /\ SizedName) =>
        (packed = "ok" /\ Len(account) = LEN(layout))

C10_Witness ==
    /\ pc = "stored"
    /\ layout = "StreamTerms"
    /\ ExactBuffer
    /\ SizedName
    /\ packed = "ok"
    /\ Len(account) = StreamTerms_LEN
    /\ account # account0

\* the "empty slot" bytes: 258 zero bytes except the is_streaming byte, set to 1
EmptySlot == [i \in 1..Stream_LEN |-> IF i = Stream_LEN THEN 1 ELSE 0]

\* C11: unpacking the 258-byte buffer that is all zero except the is_streaming
\* byte (offset 257) set to 1 yields a Stream equal, field by field including
\* stream_name, to Stream::default().
C11_DefaultRecord ==
    (pc = "restored" /\ layout = "Stream" /\ account = EmptySlot)
        => unpacked = Ok(Stream_default)

\* the instruction values a client can build
Instructions ==
    {SampleInstruction(v, seed, name, flag) :
        v \in Variants, seed \in 0..MaxSeed, name \in Names, flag \in BOOLEAN}

\* C12: the tag alone determines the encoded length: any two instruction
\* values of the same variant pack to byte strings of the same length, the
\* tag byte plus the fixed payload of the variant (names take 32 bytes), for
\* every variant including CreateStream and ProposeUpdate.
C12_TagDeterminesLength ==
    pc = "packed" =>
        /\ Len(instruction_data) = 1 + PayloadLen(Tag)
        /\ \A y \in Instructions :
              y.variant = instr.variant => Len(pack(y)) = Len(instruction_data)

\* C13: pack is injective: two instruction values that differ in variant or
\* in any field never encode to the same byte string.
C13_PackInjective ==
    pc = "packed" =>
        \A y \in Instructions : pack(y) = instruction_data => y = instr

\* a CreateStream with a 31-byte name is encoded, and another value of the
\* same variant has an encoding of the same length that differs in content
C13_Witness ==
    /\ pc = "packed"
    /\ instr.variant = "CreateStream"
    /\ Len(instr.stream_name) = PUBKEY_BYTES - 1
    /\ \E y \in Instructions :
          /\ y # instr
          /\ y.variant = instr.variant
          /\ Len(pack(y)) = Len(instruction_data)
          /\ pack(y) # instruction_data

\* C14: each instruction builder checks the caller-supplied program id once:
\* when it differs from this program's id the call fails with
\* IncorrectProgramId and no Instruction is returned; when it matches, the
\* builder returns an Instruction whose data is the encoding of the variant.
C14_BuilderChecksProgramId ==
    pc = "built" =>
        IF program_id # id
        THEN built = Err(IncorrectProgramId)
        ELSE /\ built.kind = "ok"
             /\ built.val.program_id = id
             /\ built.val.data = pack(instr)

\* C15: whenever an instruction decode or a Stream / StreamTerms unpack fails,
\* it fails as a returned typed error, and no buffer has been modified: the
\* instruction bytes and the account buffer are what they were before the call.
C15_FailuresAreTypedErrors ==
    /\ (pc = "unpacked" /\ decoded.kind # "ok") => decoded.kind = "err"
    /\ (pc = "restored" /\ unpacked.kind # "ok") =>
          /\ unpacked.kind = "err"
          /\ record = NoValue => account = account0

\* the byte strings appended after a payload: 1 to MaxExtra + 8 bytes of any fill
Trailers == {FillSeq(f, e) : f \in 0..MaxFill, e \in 1..(MaxExtra + U64_BYTES)}

\* C16: bytes that follow a variant's required payload are ignored by the
\* decode: tags 4, 5 and 8 (PauseStream, ResumeStream, CloseStream) decode to
\* their variant whatever bytes remain, and for every variant, if unpack(b)
\* succeeds then unpack(b followed by any extra bytes) returns the same value.
C16_TrailingBytesIgnored ==
    pc = "unpacked" =>
        /\ Tag \in {4, 5, 8} => decoded = Ok([variant |-> VariantOfTag(Tag)])
        /\ decoded.kind = "ok" =>
              \A t \in Trailers : unpack(instruction_data \o t) = decoded

\* a CreateStream payload followed by extra bytes was decoded, and the decode
\* of the payload alone gives the same instruction
C16_Witness ==
    /\ pc = "unpacked"
    /\ decoded.kind = "ok"
    /\ Tag = 0
    /\ PayloadBytes > PayloadLen(0)
    /\ unpack(Take(instruction_data, 1 + PayloadLen(0))) = decoded

\* unpack_from_slice of the layout
unpack_from_slice(l, input) ==
    IF l = "Stream" THEN Stream_unpack_from_slice(input)
    ELSE StreamTerms_unpack_from_slice(input)

\* C17: pack and unpack of Stream and StreamTerms touch only the first LEN
\* bytes (258 resp. 225) of the buffer: pack_into_slice never changes the
\* buffer's length and leaves every byte at index >= LEN unchanged, and the
\* result of unpack_from_slice does not depend on the bytes at index >= LEN.
C17_OnlyFirstLenBytes ==
    /\ pc = "stored" =>
          /\ Len(account) = Len(account0)
          /\ \A i \in (LEN(layout) + 1)..Len(account0) : account[i] = account0[i]
    /\ (pc = "restored" /\ Len(account) >= LEN(layout)) =>
          /\ unpacked = unpack_from_slice(layout, Take(account, LEN(layout)))
          /\ \A t \in Trailers :
                unpacked = unpack_from_slice(layout, Take(account, LEN(layout)) \o t)

\* a record was packed into a buffer one byte longer than LEN and unpacked
\* again: the stores changed the buffer, its last byte is the byte it held
\* before, and the record came back
C17_Witness ==
    /\ pc = "restored"
    /\ record # NoValue
    /\ Len(account0) = LEN(layout) + 1
    /\ Len(account) = Len(account0)
    /\ account # account0
    /\ account0[Len(account0)] # 0
    /\ account[Len(account)] = account0[Len(account0)]
    /\ unpacked = Ok(record)

\* the 32-byte name field of the buffer the record was read from
NameField ==
    IF layout = "Stream" THEN field_of(account0, Stream_widths, 2)
    ELSE field_of(account0, StreamTerms_widths, 3)

\* the name field holds valid UTF-8: the lossy conversion replaces nothing
ValidName == from_utf8_lossy(NameField) = NameField

\* C18 (as stated): for every buffer of exactly LEN bytes that unpacks
\* successfully, packing the unpacked record into a buffer of the same length
\* completes and reproduces the original bytes, whatever bytes the name
\* field holds.
C18_UnpackPackIdentity ==
    (pc = "repacked" /\ ExactBuffer) => (packed = "ok" /\ account = account0)

\* C18 (amended): for every buffer of exactly LEN bytes that unpacks
\* successfully and whose 32-byte name field holds valid UTF-8, packing the
\* unpacked record into a buffer of the same length completes and reproduces
\* the original bytes.
C18_ValidNameIdentity ==
    (pc = "repacked" /\ ExactBuffer /\ ValidName) =>
        (packed = "ok" /\ account = account0)

\* a buffer with a name of ASCII letters was unpacked and packed again
C18_Witness ==
    /\ pc = "repacked"
    /\ ExactBuffer
    /\ ValidName
    /\ NameField[1] # 0
    /\ packed = "ok"
    /\ account = account0

\* the buffer after the stores that precede the one of stream_name
BeforeNameStore ==
    IF layout = "Stream"
    THEN <<bool_as_u8(record.initialized)>> \o Drop(account0, 1)
    ELSE <<bool_as_u8(record.initialized)>> \o record.proposed_by
            \o Drop(account0, 1 + PUBKEY_BYTES)

\* C19: pack_into_slice on a record whose stream_name is not exactly 32 bytes
\* long (shorter or longer, including the empty name of Default) aborts with
\* a copy-bounds violation instead of returning a typed error, after the
\* earlier fields were written: for Stream byte 0 (initialized), for
\* StreamTerms bytes 0..32 (initialized and proposer id) have been
\* overwritten, and all later bytes of the buffer are unchanged.
C19_AbortAfterPartialWrite ==
    (pc = "stored" /\ Len(account0) >= LEN(layout) /\ ~SizedName) =>
        /\ packed = "panic"
        /\ account = BeforeNameStore

\* Stream::default(), with its empty name, was packed into a buffer of LEN
\* bytes: the pack aborted, byte 0 was overwritten and byte 1 was not
C19_Witness ==
    /\ pc = "stored"
    /\ record = Stream_default
    /\ Len(account0) = Stream_LEN
    /\ packed = "panic"
    /\ account0[1] # 0
    /\ account[1] = 0
    /\ account0[2] # 0
    /\ account[2] = account0[2]

=============================================================================
